---- MODULE Spec2Model ----
(***************************************************************************)
(* A model of the PicoScope 4824A wrappers:                                *)
(*   ps4824a_wrapper_blockmode_utils.py  (block mode, class Picoscope)     *)
(*   ps4824a_wrapper.py                  (streaming mode, class Picoscope) *)
(* The vendor driver (picosdk) is the environment: every driver call       *)
(* returns a status chosen nondeterministically, and the data it writes    *)
(* into registered buffers is chosen nondeterministically.                 *)
(* One action models one whole method call or, for the two polling loops,  *)
(* one loop iteration.  op / calls / outcome record the last method call,  *)
(* the driver calls its last step issued, in order, and how it ended.      *)
(***************************************************************************)
EXTENDS Integers, Sequences, FiniteSets, TLC

VARIABLES
    wrapper,              \* "none" | "block" | "stream": which class was instantiated
    pc,                   \* control point of the calling program
    isOpen,               \* the device handle c_handle is open at the driver
    max_ADC,              \* self.max_ADC.value (block wrapper)
    active_channels,      \* self.active_channels (list, block wrapper)
    channel_ranges,       \* self.channel_ranges (dict: channel name -> range index)
    hw_trigger,           \* the simple trigger armed on the device
    timebase,             \* self.timebase (set by setup_block)
    block_size,           \* self.block_size (set by setup_block)
    pre_trigger_samples,  \* self.pre_trigger_samples (set by setup_block)
    post_trigger_samples, \* self.post_trigger_samples (set by setup_block)
    buffers,              \* self.buffers (dict: channel name -> buffer, block wrapper)
    hw_capture,           \* "none" | "running": a block capture was started (ps4000aRunBlock)
    hw_buffers,           \* channels whose self.buffers array is registered with the driver
    intermediate_buffers, \* self.intermediate_buffers (streaming wrapper)
    complete_buffers,     \* self.complete_buffers (streaming wrapper)
    nextSample,           \* self._nextSample
    autoStopOuter,        \* self._autoStopOuter
    wasCalledBack,        \* self._wasCalledBack
    hw_streaming,         \* the device is streaming (ps4000aRunStreaming succeeded)
    hw_registered,        \* channels whose data buffer is registered with the driver
    delivered,            \* history: samples the driver delivered per channel in this run
    lastSegment,          \* history: noOfSamples, startIndex and cursor of the last callback
    op,                   \* the last method call and its arguments
    calls,                \* driver calls issued by the last step, in order
    outcome,              \* how the last method call ended ("running" inside a loop)
    arrays,               \* plotter: the numpy arrays allocated so far, by identity
    data,                 \* plotter: the array bound to the global data
    ptr,                  \* plotter: the global ptr
    tmp,                  \* plotter: the local tmp of pico_run
    wpc,                  \* plotter: control point of the worker thread
    queued,               \* plotter: triggered signals waiting in the GUI event queue
    gpc,                  \* plotter: control point of the GUI thread's slot
    gdata,                \* plotter: the array the slot has loaded from data
    gread                 \* plotter: history: the last slice handed to setData

blockVars == <<timebase, block_size, pre_trigger_samples, post_trigger_samples, buffers,
               hw_capture, hw_buffers>>

streamVars == <<intermediate_buffers, complete_buffers, nextSample, autoStopOuter,
                wasCalledBack, hw_streaming, hw_registered, delivered, lastSegment>>

plotVars == <<arrays, data, ptr, tmp, wpc, queued, gpc, gdata, gread>>

wrapperVars == <<wrapper, pc, isOpen, max_ADC, active_channels, channel_ranges,
                 hw_trigger, blockVars, streamVars, op, calls, outcome>>

vars == <<wrapperVars, plotVars>>

-----------------------------------------------------------------------------
(* Bounds of the model *)

\* longest self.active_channels list explored (the list grows on every setup_channel)
MaxActive == 2

\* largest block_size for which the captured samples are modelled
MaxBlockSize == 2

\* self.buffer_len: length of each intermediate streaming buffer (512 by default)
BufferLen == 2

\* get_block_traces is not called on buffers converted this many times already
MaxConversions == 2

\* capacity of the plotters' first data array (100 in the scripts)
InitCapacity == 2

\* number of data arrays the worker allocates in all (the array is doubled for ever)
MaxArrays == 3

\* triggered signals that may wait in the GUI event queue at once
MaxQueued == 2

-----------------------------------------------------------------------------
(* Inputs *)

Channels == {"A", "B"}
OneChannel == {"A"}

\* channel_range_mv arguments of setup_channel (2000 is the default)
RangeInputs == {-60000, -1500, 0, 10, 11, 1500, 2000, 2001, 50000, 50001}

\* setup_channel called with the default channel_range_mv
DefaultRange == {2000}

\* trigger_threshold_mv arguments of setup_trigger (100 is the default)
ThresholdInputs == {-2500, -100, 0, 5, 10, 100, 1500, 1999, 2000, 49999, 50000}

\* status codes a driver call may return: PICO_OK, PICO_NOT_FOUND, and the
\* power-source status that ps4000aOpenUnit may return
DriverStatuses == {0, 3}
OpenStatuses == {0, 3, 286}

\* values ps4000aMaximumValue may report
MaxAdcValues == {32512, 32767}

\* The wrappers never look at sample values, so the k-th sample the driver delivers
\* on a channel in one run or block carries the value k (negated on channels other
\* than "A"): every sample is told from every other and from the zeros of a fresh
\* buffer
SampleTag(c, k) == IF c = "A" THEN k ELSE -k

\* what np.empty may leave in a cell: 0 stands for a number the worker never
\* stored, 1 for one that happens to equal the first value it stored
EmptyContents == {0, 1}

\* np.empty(n): n cells of whatever the memory held
NpEmpty(n, fill) == [i \in 1..n |-> fill]

\* the slot has not run yet
NoRead == [ptr |-> 0, capacity |-> 0, values |-> <<>>]

NoRange == -1
NoTrigger == [source |-> "none", threshold |-> 0]
NoOp == [name |-> "none"]
\* an integer attribute that has not been assigned yet
Unset == -1
\* self.timebase before it is assigned
UnsetTimebase == [neg |-> TRUE, digits |-> <<>>]
NoSegment == [noOfSamples |-> 0, startIndex |-> 0, cursor |-> 0]
\* no entry in self.buffers
NoBuffer == [size |-> 0, samples |-> <<>>, conversions |-> 0]

-----------------------------------------------------------------------------
(* picosdk.functions, as called by the wrappers *)

\* assert_pico_ok(status) raises unless status is PICO_OK
assert_pico_ok(status) == status = 0

\* channelInputRanges of picosdk.functions.mV2adc / adc2mV
channelInputRanges == <<10, 20, 50, 100, 200, 500, 1000, 2000, 5000, 10000,
                        20000, 50000, 100000, 200000>>

\* Python's round() of the quotient num / den (den > 0): round half to even
RoundHalfEven(num, den) ==
    LET q == num \div den
        r == num % den
    IN  IF 2 * r < den THEN q
        ELSE IF 2 * r > den THEN q + 1
        ELSE IF q % 2 = 0 THEN q ELSE q + 1

\* mV2adc(millivolts, range, maxADC): round((millivolts * maxADC.value) / vRange)
mV2adc(millivolts, range, maxADC) ==
    RoundHalfEven(millivolts * maxADC, channelInputRanges[range + 1])

-----------------------------------------------------------------------------
(* Device session: Picoscope.__init__ of both wrappers *)

PICO_POWER_SUPPLY_NOT_CONNECTED == 286

allowed_ranges == <<10, 20, 50, 100, 200, 500, 1000, 2000, 5000, 10000, 20000, 50000>>

Abs(x) == IF x < 0 THEN -x ELSE x

DriverCall(fn, arg, status) == [fn |-> fn, arg |-> arg, status |-> status]

\* variant: the power source is switched after any failed open
NeedsPowerSwitch_AnyFailure(status) == ~assert_pico_ok(status)

\* the except-branch of __init__: the power source is switched when the open
\* status is 286, any other failure is re-raised
NeedsPowerSwitch(status) == status = PICO_POWER_SUPPLY_NOT_CONNECTED

\* driver calls of the open phase, for open status st and power-switch status pst
OpenPhaseCalls(st, pst) ==
    IF assert_pico_ok(st) THEN <<DriverCall("ps4000aOpenUnit", <<>>, st)>>
    ELSE IF NeedsPowerSwitch(st)
         THEN <<DriverCall("ps4000aOpenUnit", <<>>, st),
                DriverCall("ps4000aChangePowerSource", <<st>>, pst)>>
         ELSE <<DriverCall("ps4000aOpenUnit", <<>>, st)>>

\* the open phase passes (no exception leaves the try/except and the assert after it)
OpenPhaseOk(st, pst) ==
    \/ assert_pico_ok(st)
    \/ NeedsPowerSwitch(st) /\ assert_pico_ok(pst)

\* Picoscope.__init__ of the block-mode wrapper
ConstructBlock ==
    /\ pc = "new"
    /\ \E st \in OpenStatuses, pst \in DriverStatuses, mst \in DriverStatuses,
          mv \in MaxAdcValues :
        /\ wrapper' = "block"
        /\ op' = [name |-> "__init__", wrapper |-> "block"]
        /\ isOpen' = OpenPhaseOk(st, pst)
        /\ IF OpenPhaseOk(st, pst)
           THEN \* fields are initialised, then _get_max_ADC queries the driver
                /\ calls' = Append(OpenPhaseCalls(st, pst),
                                   DriverCall("ps4000aMaximumValue", <<>>, mst))
                /\ IF assert_pico_ok(mst)
                   THEN /\ max_ADC' = mv
                        /\ outcome' = "ok"
                        /\ pc' = "idle"
                   ELSE /\ max_ADC' = max_ADC
                        /\ outcome' = "HardwareError"
                        /\ pc' = "init_failed"
           ELSE /\ calls' = OpenPhaseCalls(st, pst)
                /\ max_ADC' = max_ADC
                /\ outcome' = "HardwareError"
                /\ pc' = "init_failed"
    /\ UNCHANGED <<active_channels, channel_ranges, hw_trigger, blockVars, streamVars>>
    /\ UNCHANGED plotVars

\* Picoscope.__init__ of the streaming wrapper
ConstructStream ==
    /\ pc = "new"
    /\ \E st \in OpenStatuses, pst \in DriverStatuses :
        /\ wrapper' = "stream"
        /\ op' = [name |-> "__init__", wrapper |-> "stream"]
        /\ isOpen' = OpenPhaseOk(st, pst)
        /\ calls' = OpenPhaseCalls(st, pst)
        /\ IF OpenPhaseOk(st, pst)
           THEN outcome' = "ok" /\ pc' = "idle"
           ELSE outcome' = "HardwareError" /\ pc' = "init_failed"
    /\ UNCHANGED <<max_ADC, active_channels, channel_ranges, hw_trigger, blockVars, streamVars>>
    /\ UNCHANGED plotVars

\* Picoscope.__exit__ (both wrappers): close the unit, re-raise a failure
Close ==
    /\ pc = "idle"
    /\ \E st \in DriverStatuses :
        /\ op' = [name |-> "__exit__"]
        /\ calls' = <<DriverCall("ps4000aCloseUnit", <<>>, st)>>
        /\ outcome' = IF assert_pico_ok(st) THEN "ok" ELSE "HardwareError"
        /\ isOpen' = IF assert_pico_ok(st) THEN FALSE ELSE isOpen
        /\ pc' = "closed"
    /\ UNCHANGED <<wrapper, max_ADC, active_channels, channel_ranges, hw_trigger,
                   blockVars, streamVars>>
    /\ UNCHANGED plotVars

-----------------------------------------------------------------------------
(* Channel configurator: Picoscope.setup_channel of the block-mode wrapper *)

\* next(x for x in self.allowed_ranges if x >= abs(channel_range_mv)), scanning
\* from position i; 0 stands for StopIteration
RECURSIVE FirstAllowedFrom(_, _)
FirstAllowedFrom(i, channel_range_mv) ==
    IF i > Len(allowed_ranges) THEN 0
    ELSE IF allowed_ranges[i] >= Abs(channel_range_mv) THEN allowed_ranges[i]
    ELSE FirstAllowedFrom(i + 1, channel_range_mv)

\* self.allowed_ranges.index(x): 0-based position of the first entry equal to x
RECURSIVE IndexFrom(_, _)
IndexFrom(i, x) ==
    IF allowed_ranges[i] = x THEN i - 1 ELSE IndexFrom(i + 1, x)

\* variant: the scan uses x > abs(channel_range_mv)
coerce_channel_range_Strict(channel_range_mv) ==
    LET above == {i \in 1..Len(allowed_ranges) : allowed_ranges[i] > Abs(channel_range_mv)}
    IN  IF above = {} THEN Len(allowed_ranges) - 1
        ELSE (CHOOSE i \in above : \A j \in above : i <= j) - 1

coerce_channel_range(channel_range_mv) ==
    LET found == FirstAllowedFrom(1, channel_range_mv)
        coerced_range == IF found = 0 THEN allowed_ranges[Len(allowed_ranges)]
                         ELSE found
    IN  IndexFrom(1, coerced_range)

SetupChannel(Chs, Rs) ==
    /\ pc = "idle"
    /\ wrapper = "block"
    /\ Len(active_channels) < MaxActive
    /\ \E channel_name \in Chs, channel_range_mv \in Rs, st \in DriverStatuses :
        LET channel_range == coerce_channel_range(channel_range_mv) IN
        /\ op' = [name |-> "setup_channel", channel_name |-> channel_name,
                  channel_range_mv |-> channel_range_mv]
        /\ calls' = <<DriverCall("ps4000aSetChannel",
                                 <<channel_name, channel_range>>, st)>>
        /\ IF assert_pico_ok(st)
           THEN /\ active_channels' = Append(active_channels, channel_name)
                /\ channel_ranges' = [channel_ranges EXCEPT ![channel_name] = channel_range]
                /\ outcome' = "ok"
           ELSE /\ UNCHANGED <<active_channels, channel_ranges>>
                /\ outcome' = "HardwareError"
    /\ UNCHANGED <<wrapper, pc, isOpen, max_ADC, hw_trigger, blockVars, streamVars>>
    /\ UNCHANGED plotVars

-----------------------------------------------------------------------------
(* Trigger configurator: Picoscope.setup_trigger *)

\* the KeyError branch of convert_trigger_units
ChannelNotFound(ranges, source_channel_name) ==
    ranges[source_channel_name] = NoRange

\* variant: the range check uses < instead of <=
ThresholdTooHigh_Strict(source_channel_range, trigger_threshold_mv) ==
    allowed_ranges[source_channel_range + 1] < trigger_threshold_mv

\* the range check of convert_trigger_units
ThresholdTooHigh(source_channel_range, trigger_threshold_mv) ==
    allowed_ranges[source_channel_range + 1] <= trigger_threshold_mv

\* variant: an unknown channel falls back to the default range (index 7, 2000 mV)
convert_trigger_units_DefaultRange(ranges, source_channel_name, trigger_threshold_mv, maxADC) ==
    LET source_channel_range == IF ChannelNotFound(ranges, source_channel_name)
                                THEN 7 ELSE ranges[source_channel_name]
    IN  IF ThresholdTooHigh(source_channel_range, trigger_threshold_mv)
        THEN [exit |-> TRUE, value |-> 0]
        ELSE [exit |-> FALSE,
              value |-> mV2adc(trigger_threshold_mv, source_channel_range, maxADC)]

\* variant: the threshold is scaled to the next range of the table
convert_trigger_units_NextRange(ranges, source_channel_name, trigger_threshold_mv, maxADC) ==
    IF ChannelNotFound(ranges, source_channel_name)
    THEN [exit |-> TRUE, value |-> 0]
    ELSE IF ThresholdTooHigh(ranges[source_channel_name], trigger_threshold_mv)
    THEN [exit |-> TRUE, value |-> 0]
    ELSE [exit |-> FALSE,
          value |-> mV2adc(trigger_threshold_mv, ranges[source_channel_name] + 1, maxADC)]

\* convert_trigger_units: a configuration error (print and sys.exit()) or ADC counts
convert_trigger_units(ranges, source_channel_name, trigger_threshold_mv, maxADC) ==
    IF ChannelNotFound(ranges, source_channel_name)
    THEN [exit |-> TRUE, value |-> 0]
    ELSE IF ThresholdTooHigh(ranges[source_channel_name], trigger_threshold_mv)
    THEN [exit |-> TRUE, value |-> 0]
    ELSE [exit |-> FALSE,
          value |-> mV2adc(trigger_threshold_mv, ranges[source_channel_name], maxADC)]

SetupTrigger ==
    /\ pc = "idle"
    /\ wrapper = "block"
    /\ \E source_channel_name \in Channels, trigger_threshold_mv \in ThresholdInputs,
          st \in DriverStatuses :
        LET conv == convert_trigger_units(channel_ranges, source_channel_name,
                                          trigger_threshold_mv, max_ADC) IN
        /\ op' = [name |-> "setup_trigger", source_channel_name |-> source_channel_name,
                  trigger_threshold_mv |-> trigger_threshold_mv]
        /\ IF conv.exit
           THEN /\ calls' = <<>>
                /\ outcome' = "ConfigurationError"
                /\ UNCHANGED hw_trigger
           ELSE /\ calls' = <<DriverCall("ps4000aSetSimpleTrigger",
                                         <<source_channel_name, conv.value>>, st)>>
                /\ IF assert_pico_ok(st)
                   THEN /\ hw_trigger' = [source |-> source_channel_name,
                                          threshold |-> conv.value]
                        /\ outcome' = "ok"
                   ELSE /\ UNCHANGED hw_trigger
                        /\ outcome' = "HardwareError"
    /\ UNCHANGED <<wrapper, pc, isOpen, max_ADC, active_channels, channel_ranges,
                   blockVars, streamVars>>
    /\ UNCHANGED plotVars

-----------------------------------------------------------------------------
(* Block timebase planner: Picoscope.setup_block *)

(* Timebase codes exceed TLC's integers, so natural numbers of the timebase
   computation are decimal digit sequences, most significant digit first,
   without leading zeros (<<>> is zero). *)

RECURSIVE NatDigits(_)
NatDigits(x) == IF x = 0 THEN <<>> ELSE Append(NatDigits(x \div 10), x % 10)

RECURSIVE Zeros(_)
Zeros(k) == IF k = 0 THEN <<>> ELSE <<0>> \o Zeros(k - 1)

RECURSIVE StripZeros(_)
StripZeros(d) == IF d # <<>> /\ Head(d) = 0 THEN StripZeros(Tail(d)) ELSE d

\* d * 10^k
BigShl(d, k) == IF d = <<>> THEN <<>> ELSE d \o Zeros(k)

\* floor(d / 10^k)
BigShr(d, k) == IF Len(d) <= k THEN <<>> ELSE SubSeq(d, 1, Len(d) - k)

\* floor(d / m) for a small divisor m > 0: schoolbook long division
RECURSIVE DivDigits(_, _, _)
DivDigits(d, rem, m) ==
    IF d = <<>> THEN <<>>
    ELSE LET cur == rem * 10 + Head(d)
         IN  <<cur \div m>> \o DivDigits(Tail(d), cur % m, m)

BigDivSmall(d, m) == StripZeros(DivDigits(d, 0, m))

\* d - 1 for d > 0
RECURSIVE DecDigits(_)
DecDigits(d) ==
    IF d[Len(d)] > 0 THEN [d EXCEPT ![Len(d)] = @ - 1]
    ELSE Append(DecDigits(SubSeq(d, 1, Len(d) - 1)), 9)

BigPred(d) == StripZeros(DecDigits(d))

RECURSIVE LexLeq(_, _)
LexLeq(a, b) ==
    IF a = <<>> THEN TRUE
    ELSE IF Head(a) # Head(b) THEN Head(a) < Head(b)
    ELSE LexLeq(Tail(a), Tail(b))

BigLeq(a, b) == Len(a) < Len(b) \/ (Len(a) = Len(b) /\ LexLeq(a, b))

\* an integer as [neg, digits]
BigNat(d) == [neg |-> FALSE, digits |-> d]
MinusOne == [neg |-> TRUE, digits |-> <<1>>]

\* the sampling clock 400e6 of convert_timebase is ClockMantissa * 10^ClockExp10
ClockMantissa == 4
ClockExp10 == 8

\* int(2e32 - 1): the upper limit convert_timebase compares with (the float 2e32)
CodeUpperLimit == <<2,0,0,0,0,0,0,0,0,0,0,0,0,0,0,0,0,1,0,7,3,2,3,2,4,4,0,8,7,8,6,9,4,4>>

\* the timebase the code falls back to (100 kS/s)
FallbackTimebase == BigNat(<<3, 9, 9, 9>>)

\* floor(400e6 / sampling_rate) - 1 with sampling_rate = (block_size - 1) / block_duration,
\* for block_size >= 2 and block_duration = mant / 10^exp10 seconds
RawTimebase(n, block_duration) ==
    LET scaled == BigShr(BigShl(NatDigits(ClockMantissa * block_duration.mant), ClockExp10),
                         block_duration.exp10)
        quotient == BigDivSmall(scaled, n - 1)
    IN  IF quotient = <<>> THEN MinusOne ELSE BigNat(BigPred(quotient))

\* the window check 0 <= timebase <= 2e32 - 1 of convert_timebase
InCodeWindow(tb) == ~tb.neg /\ BigLeq(tb.digits, CodeUpperLimit)

\* convert_timebase(block_size, block_duration)
convert_timebase(n, block_duration) ==
    IF InCodeWindow(RawTimebase(n, block_duration))
    THEN RawTimebase(n, block_duration)
    ELSE FallbackTimebase

\* floor(block_size * pre_trigger_percent), pre_trigger_percent = num / den
PreTriggerSamples(n, f) == (n * f.num) \div f.den

\* block_size arguments of setup_block (100 and 10000 are used by the scripts)
PlanSizes == {1, 2, 100, 10000}

\* block_duration arguments, in seconds, as mant / 10^exp10 (1 is the default)
Durations == {[mant |-> 1, exp10 |-> 9], [mant |-> 1, exp10 |-> 0],
              [mant |-> 10, exp10 |-> 0], [mant |-> 20, exp10 |-> 0]}
DefaultDuration == {[mant |-> 1, exp10 |-> 0]}

\* pre_trigger_percent arguments (from 0 to 1; 0 is the default)
Fractions == {[num |-> 0, den |-> 1], [num |-> 1, den |-> 3],
              [num |-> 1, den |-> 2], [num |-> 1, den |-> 1]}
DefaultFraction == {[num |-> 0, den |-> 1]}

\* convert_timebase tabulated over the block_size and block_duration arguments used
\* arguments of the setup_block call of ps4824a_example_continuous_blocks.py:
\* block_size=10000, block_duration=0.01, pre_trigger_percent=0
ScriptBlockSize == {10000}
ScriptDuration == {[mant |-> 1, exp10 |-> 2]}

TimebaseOf ==
    [n \in (PlanSizes \cup ScriptBlockSize \cup 1..MaxBlockSize) \ {1},
     d \in Durations \cup ScriptDuration |-> convert_timebase(n, d)]

SetupBlock(Ns, Ds, Fs) ==
    /\ pc = "idle"
    /\ wrapper = "block"
    /\ \E n \in Ns, block_duration \in Ds, pre_trigger_percent \in Fs,
          st \in DriverStatuses :
        /\ op' = [name |-> "setup_block", block_size |-> n,
                  block_duration |-> block_duration,
                  pre_trigger_percent |-> pre_trigger_percent]
        /\ IF n = 1
           THEN \* sampling_rate is 0.0 and 400e6 / sampling_rate raises
                /\ calls' = <<>>
                /\ outcome' = "ZeroDivisionError"
                /\ UNCHANGED <<timebase, block_size, pre_trigger_samples,
                               post_trigger_samples>>
           ELSE /\ timebase' = TimebaseOf[n, block_duration]
                /\ block_size' = n
                /\ pre_trigger_samples' = PreTriggerSamples(n, pre_trigger_percent)
                /\ post_trigger_samples' = n - pre_trigger_samples'
                /\ calls' = <<DriverCall("ps4000aGetTimebase2",
                                         <<timebase', block_size'>>, st)>>
                /\ outcome' = IF assert_pico_ok(st) THEN "ok" ELSE "HardwareError"
    /\ UNCHANGED <<wrapper, pc, isOpen, max_ADC, active_channels, channel_ranges,
                   hw_trigger, buffers, hw_capture, hw_buffers, streamVars>>
    /\ UNCHANGED plotVars

-----------------------------------------------------------------------------
(* Acquisition engine, block mode: Picoscope.run_block *)

\* (ctypes.c_int16 * self.block_size)(): a zero-filled array of block_size samples;
\* samples = <<>> stands for the array as allocated, all zeros
FreshBuffer(n) == [size |-> n, samples |-> <<>>, conversions |-> 0]

\* self.buffers after the for loop over the first k entries of self.active_channels
RECURSIVE BuffersAfterLoop(_, _, _, _)
BuffersAfterLoop(bufs, chans, n, k) ==
    IF k = 0 THEN bufs
    ELSE [BuffersAfterLoop(bufs, chans, n, k - 1) EXCEPT ![chans[k]] = FreshBuffer(n)]

\* the ps4000aSetDataBuffers calls of the for loop, one per entry of active_channels
SetDataBuffersCalls(chans, n, sts) ==
    [i \in 1..Len(chans) |->
        DriverCall("ps4000aSetDataBuffers", <<chans[i], n>>, sts[i])]

\* the ps4000aRunBlock call of run_block
RunBlockCall(pre, post, tb, st) ==
    DriverCall("ps4000aRunBlock", <<pre, post, tb>>, st)

\* channels whose array the driver holds after the for loop: ps4000aSetDataBuffers
\* registers the new array when it succeeds
RegisteredAfterLoop(reg, chans, sts) ==
    (reg \ {chans[i] : i \in {j \in 1..Len(chans) : ~assert_pico_ok(sts[j])}})
        \cup {chans[i] : i \in {j \in 1..Len(chans) :
                  assert_pico_ok(sts[j])
                  /\ \A k \in (j + 1)..Len(chans) :
                         chans[k] = chans[j] => assert_pico_ok(sts[k])}}

RunBlock ==
    /\ pc = "idle"
    /\ wrapper = "block"
    /\ op' = [name |-> "run_block"]
    /\ \E sts \in [1..Len(active_channels) -> DriverStatuses], rst \in DriverStatuses :
        IF active_channels = <<>>
        THEN \* the loop body never runs: status is unbound at assert_pico_ok(status)
             /\ calls' = <<>>
             /\ outcome' = "NameError"
             /\ UNCHANGED <<buffers, hw_capture, hw_buffers>>
        ELSE IF block_size = Unset
        THEN \* self.block_size does not exist before setup_block
             /\ calls' = <<>>
             /\ outcome' = "AttributeError"
             /\ UNCHANGED <<buffers, hw_capture, hw_buffers>>
        ELSE /\ buffers' = BuffersAfterLoop(buffers, active_channels, block_size,
                                            Len(active_channels))
             /\ hw_buffers' = RegisteredAfterLoop(hw_buffers, active_channels, sts)
             /\ IF assert_pico_ok(sts[Len(active_channels)])
                THEN \* only the status of the last channel is asserted
                     /\ calls' = Append(SetDataBuffersCalls(active_channels, block_size, sts),
                                        RunBlockCall(pre_trigger_samples,
                                                     post_trigger_samples, timebase, rst))
                     /\ outcome' = IF assert_pico_ok(rst) THEN "ok" ELSE "HardwareError"
                     /\ hw_capture' = IF assert_pico_ok(rst) THEN "running" ELSE hw_capture
                ELSE /\ calls' = SetDataBuffersCalls(active_channels, block_size, sts)
                     /\ outcome' = "HardwareError"
                     /\ UNCHANGED hw_capture
    /\ UNCHANGED <<wrapper, pc, isOpen, max_ADC, active_channels, channel_ranges,
                   hw_trigger, timebase, block_size, pre_trigger_samples,
                   post_trigger_samples, streamVars>>
    /\ UNCHANGED plotVars

-----------------------------------------------------------------------------
(* Acquisition engine, block mode: Picoscope.get_block_traces *)

\* channels with an entry in self.buffers
BufferChannels == {c \in Channels : buffers[c] # NoBuffer}

\* get_block_traces up to the while loop: ready = 0
GetBlockTracesBegin ==
    /\ pc = "idle"
    /\ wrapper = "block"
    /\ \A c \in BufferChannels : buffers[c].conversions < MaxConversions
    /\ op' = [name |-> "get_block_traces"]
    /\ calls' = <<>>
    /\ outcome' = "running"
    /\ pc' = "wait_ready"
    /\ UNCHANGED <<wrapper, isOpen, max_ADC, active_channels, channel_ranges, hw_trigger,
                   blockVars, streamVars>>
    /\ UNCHANGED plotVars

\* variant: the loop is left after the first poll
ReadyLoopCondition_PollOnce(ready) == FALSE

\* while ready.value == check.value, check being c_int16(0)
ReadyLoopCondition(ready) == ready = 0

\* one iteration of while ready.value == check.value: the status of ps4000aIsReady
\* is stored in status_temp and never looked at.  The driver reports ready only
\* for a capture that was started, and leaves ready at 0 when the call fails.
IsReadyPoll ==
    /\ pc = "wait_ready"
    /\ \E st \in DriverStatuses, ready \in {0, 1} :
        /\ ready = 1 => assert_pico_ok(st) /\ hw_capture = "running"
        /\ calls' = <<DriverCall("ps4000aIsReady", <<ready>>, st)>>
        /\ pc' = IF ReadyLoopCondition(ready) THEN "wait_ready" ELSE "get_values"
    /\ UNCHANGED <<wrapper, isOpen, max_ADC, active_channels, channel_ranges, hw_trigger,
                   blockVars, streamVars, op, outcome>>
    /\ UNCHANGED plotVars

\* the samples of a captured block on channel c, numbered as SampleTag numbers them
CapturedSamples(c, n) == [i \in 1..n |-> SampleTag(c, i)]

\* greatest common divisor of two naturals
RECURSIVE GCD(_, _)
GCD(a, b) == IF b = 0 THEN a ELSE GCD(b, a % b)

\* the number num / den (den > 0) in lowest terms
Fraction(num, den) ==
    LET g == GCD(Abs(num), den)
    IN  [num |-> num \div g, den |-> den \div g]

\* one element of picosdk.functions.adc2mV: (x * vRange) / maxADC.value
adc2mV(x, range, maxADC) ==
    Fraction(x.num * channelInputRanges[range + 1], x.den * maxADC)

\* adc2mV applied k times to x
RECURSIVE adc2mV_times(_, _, _, _)
adc2mV_times(k, x, range, maxADC) ==
    IF k = 0 THEN x ELSE adc2mV(adc2mV_times(k - 1, x, range, maxADC), range, maxADC)

\* the numbers held by a buffer: its raw samples (zeros for an array as allocated)
\* after the conversions applied to it so far
BufferValues(buf, range, maxADC) ==
    [i \in 1..buf.size |->
        adc2mV_times(buf.conversions,
                     Fraction(IF buf.samples = <<>> THEN 0 ELSE buf.samples[i], 1),
                     range, maxADC)]

\* convert_ADC_units: every entry of self.buffers is replaced by adc2mV of it
convert_ADC_units(bufs) ==
    [c \in Channels |->
        IF bufs[c] # NoBuffer THEN [bufs[c] EXCEPT !.conversions = @ + 1] ELSE bufs[c]]

\* the rest of get_block_traces: ps4000aGetValues fills the registered arrays, the
\* buffers are converted to mV and returned
GetValues ==
    /\ pc = "get_values"
    /\ \E st \in DriverStatuses :
        /\ calls' = <<DriverCall("ps4000aGetValues", <<block_size>>, st)>>
        /\ IF assert_pico_ok(st)
           THEN /\ buffers' = convert_ADC_units(
                       [c \in Channels |->
                           IF c \in hw_buffers /\ buffers[c] # NoBuffer
                                /\ buffers[c].conversions = 0
                           THEN [buffers[c] EXCEPT
                                    !.samples = CapturedSamples(c, buffers[c].size)]
                           ELSE buffers[c]])
                /\ outcome' = "ok"
           ELSE /\ UNCHANGED buffers
                /\ outcome' = "HardwareError"
    /\ pc' = "idle"
    /\ UNCHANGED <<wrapper, isOpen, max_ADC, active_channels, channel_ranges, hw_trigger,
                   timebase, block_size, pre_trigger_samples, post_trigger_samples,
                   hw_capture, hw_buffers, streamVars, op>>
    /\ UNCHANGED plotVars

-----------------------------------------------------------------------------
(* Streaming wrapper: setup_channel, setup_stream, stream_traces *)

\* self.num_buffers: number of intermediate buffers the destination holds (8 by default)
NumBuffers == 2

\* self.total_buffer_len = buffer_len * num_buffers
total_buffer_len == BufferLen * NumBuffers


\* A Python int v passed as channel_range, written v = wraps * 2^32 + c_int32 with
\* c_int32 in -2^31 .. 2^31 - 1: the wrapper keeps v, the driver is handed
\* the C int32 that ctypes makes of it, which is v modulo 2^32
PyInt(wraps, low) == [wraps |-> wraps, c_int32 |-> low]

\* ctypes conversion of a Python int to the c_int32 parameter of ps4000aSetChannel
as_c_int32(v) == v.c_int32

\* ps4000aSetChannel answers PICO_INVALID_VOLTAGE_RANGE unless the range it is
\* handed is one of the ranges of the device (10 mV .. 50 V, indices 0 .. 11)
DriverAcceptsRange(range) == range \in 0..(Len(allowed_ranges) - 1)

\* channel_range arguments of the streaming setup_channel (range index; 9 is the default)
DefaultRangeIndex == {PyInt(0, 9)}
RangeIndexInputs == {PyInt(0, -1), PyInt(0, 0), PyInt(0, 9), PyInt(0, 11), PyInt(0, 12),
                     PyInt(0, 14), PyInt(1, 9), PyInt(1, -1)}

\* sample_interval arguments of setup_stream, in microseconds (as in main())
SampleIntervals == {250}

\* np.zeros(shape=n, dtype=np.int16)
NpZeros(n) == [i \in 1..n |-> 0]

\* channels with an entry in self.intermediate_buffers
StreamChannels == {c \in Channels : intermediate_buffers[c] # <<>>}

StreamSetupChannel(Chs, Rs) ==
    /\ pc = "idle"
    /\ wrapper = "stream"
    /\ \E channel_name \in Chs, channel_range \in Rs,
          st \in DriverStatuses, bst \in DriverStatuses :
        /\ assert_pico_ok(st) => DriverAcceptsRange(as_c_int32(channel_range))
        /\ op' = [name |-> "setup_channel", channel_name |-> channel_name,
                  channel_range |-> channel_range]
        /\ IF ~assert_pico_ok(st)
           THEN /\ calls' = <<DriverCall("ps4000aSetChannel",
                                         <<channel_name, as_c_int32(channel_range)>>, st)>>
                /\ outcome' = "HardwareError"
                /\ UNCHANGED <<intermediate_buffers, channel_ranges, hw_registered>>
           ELSE /\ intermediate_buffers' =
                       [intermediate_buffers EXCEPT ![channel_name] = NpZeros(BufferLen)]
                /\ channel_ranges' = [channel_ranges EXCEPT ![channel_name] = channel_range]
                /\ calls' = <<DriverCall("ps4000aSetChannel",
                                         <<channel_name, as_c_int32(channel_range)>>, st),
                              DriverCall("ps4000aSetDataBuffers",
                                         <<channel_name, BufferLen>>, bst)>>
                /\ outcome' = IF assert_pico_ok(bst) THEN "ok" ELSE "HardwareError"
                /\ hw_registered' = IF assert_pico_ok(bst)
                                    THEN hw_registered \cup {channel_name}
                                    ELSE hw_registered \ {channel_name}
    /\ UNCHANGED <<wrapper, pc, isOpen, max_ADC, active_channels, hw_trigger, blockVars,
                   complete_buffers, nextSample, autoStopOuter, wasCalledBack,
                   hw_streaming, delivered, lastSegment>>
    /\ UNCHANGED plotVars

SetupStream ==
    /\ pc = "idle"
    /\ wrapper = "stream"
    /\ \E sample_interval \in SampleIntervals, st \in DriverStatuses :
        /\ op' = [name |-> "setup_stream", sample_interval |-> sample_interval]
        /\ calls' = <<DriverCall("ps4000aRunStreaming",
                                 <<sample_interval, total_buffer_len, BufferLen>>, st)>>
        /\ outcome' = IF assert_pico_ok(st) THEN "ok" ELSE "HardwareError"
        /\ hw_streaming' = assert_pico_ok(st)
    /\ UNCHANGED <<wrapper, pc, isOpen, max_ADC, active_channels, channel_ranges,
                   hw_trigger, blockVars, intermediate_buffers, complete_buffers,
                   nextSample, autoStopOuter, wasCalledBack, hw_registered, delivered,
                   lastSegment>>
    /\ UNCHANGED plotVars

\* stream_traces up to the while loop: destination buffers and cursor are reset
StreamTracesBegin ==
    /\ pc = "idle"
    /\ wrapper = "stream"
    /\ op' = [name |-> "stream_traces"]
    /\ calls' = <<>>
    /\ outcome' = "running"
    /\ complete_buffers' =
           [c \in Channels |->
               IF c \in StreamChannels
               THEN [size |-> total_buffer_len, samples |-> NpZeros(total_buffer_len),
                     conversions |-> 0]
               ELSE NoBuffer]
    /\ nextSample' = 0
    /\ autoStopOuter' = FALSE
    /\ wasCalledBack' = FALSE
    /\ delivered' = [c \in Channels |-> <<>>]
    /\ lastSegment' = NoSegment
    /\ pc' = "polling"
    /\ UNCHANGED <<wrapper, isOpen, max_ADC, active_channels, channel_ranges, hw_trigger,
                   blockVars, intermediate_buffers, hw_streaming, hw_registered>>
    /\ UNCHANGED plotVars

\* variant: the loop only tests the cursor
LoopCondition_CursorOnly(cursor, autoStop) == cursor < total_buffer_len

\* while self._nextSample < self.total_buffer_len and not self._autoStopOuter
LoopCondition(cursor, autoStop) == cursor < total_buffer_len /\ ~autoStop

\* buffer[i:j] = source[k:k + (j - i)] for 0-based i, j, k within bounds
CopySlice(buffer, i, j, source, k) ==
    [x \in 1..Len(buffer) |-> IF i < x /\ x <= j THEN source[k + (x - i)] ELSE buffer[x]]

\* variant: the segment is read from the start of the intermediate buffer
CallbackCopy_FromZero(buffer, cursor, noOfSamples, source, startIndex) ==
    CopySlice(buffer, cursor, cursor + noOfSamples, source, 0)

\* buffer[self._nextSample:destEnd] = self.intermediate_buffers[chl][startIndex:sourceEnd]
CallbackCopy(buffer, cursor, noOfSamples, source, startIndex) ==
    CopySlice(buffer, cursor, cursor + noOfSamples, source, startIndex)

\* self._nextSample += noOfSamples
AdvanceCursor(cursor, noOfSamples) == cursor + noOfSamples

\* one loop iteration in which the driver does not call back (no data ready, or the
\* call failed: its status is not looked at); the loop sleeps 10 ms
PollNoCallback ==
    /\ pc = "polling"
    /\ LoopCondition(nextSample, autoStopOuter)
    /\ \E st \in DriverStatuses :
        calls' = <<DriverCall("ps4000aGetStreamingLatestValues", <<>>, st)>>
    /\ wasCalledBack' = FALSE
    /\ UNCHANGED <<wrapper, pc, isOpen, max_ADC, active_channels, channel_ranges,
                   hw_trigger, blockVars, intermediate_buffers, complete_buffers,
                   nextSample, autoStopOuter, hw_streaming, hw_registered, delivered,
                   lastSegment, op, outcome>>
    /\ UNCHANGED plotVars

\* one loop iteration in which the driver writes a segment of noOfSamples samples
\* into the registered intermediate buffers at startIndex and runs
\* streaming_callback.  The driver delivers at most the configured total
\* (ps4000aRunStreaming was given total_buffer_len and auto-stop).  The wrapper
\* reads an intermediate buffer only inside the segment the callback is told
\* about; the positions outside it are recorded as 0.
PollCallback(Counts) ==
    /\ pc = "polling"
    /\ LoopCondition(nextSample, autoStopOuter)
    /\ hw_streaming
    /\ \E noOfSamples \in Counts, startIndex \in 0..BufferLen, autoStop \in BOOLEAN :
        /\ startIndex + noOfSamples <= BufferLen
        /\ nextSample + noOfSamples <= total_buffer_len
        /\ LET seg == [c \in Channels |->
                          [i \in 1..noOfSamples |-> SampleTag(c, Len(delivered[c]) + i)]] IN
            /\ intermediate_buffers' =
                   [c \in Channels |->
                       IF c \in hw_registered
                       THEN CopySlice(NpZeros(BufferLen), startIndex,
                                      startIndex + noOfSamples, seg[c], 0)
                       ELSE intermediate_buffers[c]]
            /\ delivered' =
                   [c \in Channels |->
                       IF c \in hw_registered THEN delivered[c] \o seg[c]
                       ELSE delivered[c]]
        /\ complete_buffers' =
               [c \in Channels |->
                   IF c \in StreamChannels
                   THEN [complete_buffers[c] EXCEPT !.samples =
                            CallbackCopy(@, nextSample, noOfSamples,
                                         intermediate_buffers'[c], startIndex)]
                   ELSE complete_buffers[c]]
        /\ nextSample' = AdvanceCursor(nextSample, noOfSamples)
        /\ autoStopOuter' = (autoStopOuter \/ autoStop)
        /\ lastSegment' = [noOfSamples |-> noOfSamples, startIndex |-> startIndex,
                           cursor |-> nextSample]
        /\ calls' = <<DriverCall("ps4000aGetStreamingLatestValues", <<>>, 0)>>
    /\ wasCalledBack' = TRUE
    /\ UNCHANGED <<wrapper, pc, isOpen, max_ADC, active_channels, channel_ranges,
                   hw_trigger, blockVars, hw_streaming, hw_registered, op, outcome>>
    /\ UNCHANGED plotVars

\* the loop is left; convert_ADC_units queries the maximum ADC count and converts
\* every destination buffer to mV; stream_traces returns self.complete_buffers
StreamTracesFinish ==
    /\ pc = "polling"
    /\ ~LoopCondition(nextSample, autoStopOuter)
    /\ \E st \in DriverStatuses :
        /\ calls' = <<DriverCall("ps4000aMaximumValue", <<>>, st)>>
        /\ IF assert_pico_ok(st)
           THEN /\ complete_buffers' =
                       [c \in Channels |->
                           IF c \in StreamChannels
                           THEN [complete_buffers[c] EXCEPT !.conversions = @ + 1]
                           ELSE complete_buffers[c]]
                /\ outcome' = "ok"
           ELSE /\ UNCHANGED complete_buffers
                /\ outcome' = "HardwareError"
    /\ pc' = "idle"
    /\ UNCHANGED <<wrapper, isOpen, max_ADC, active_channels, channel_ranges, hw_trigger,
                   blockVars, intermediate_buffers, nextSample, autoStopOuter,
                   wasCalledBack, hw_streaming, hw_registered, delivered, lastSegment, op>>
    /\ UNCHANGED plotVars

-----------------------------------------------------------------------------
(* The acquisition script ps4824a_example_continuous_blocks.py.  Its position
   is read off op and outcome: a statement runs when the statement before it
   returned; an exception that nothing catches ends the program. *)

\* line 6: my_picoscope = Picoscope(0, verbose=True)
ScriptConstruct == ConstructBlock

\* line 10: my_picoscope.setup_channel('A', channel_range_mv=2000)
ScriptChannelA ==
    /\ op.name = "__init__"
    /\ outcome = "ok"
    /\ SetupChannel({"A"}, DefaultRange)

\* line 11: my_picoscope.setup_channel('B', channel_range_mv=2000)
ScriptChannelB ==
    /\ op.name = "setup_channel"
    /\ op.channel_name = "A"
    /\ outcome = "ok"
    /\ SetupChannel({"B"}, DefaultRange)

\* line 12: my_picoscope.setup_block(block_size=10000, block_duration=0.01,
\* pre_trigger_percent=0)
ScriptSetupBlock ==
    /\ op.name = "setup_channel"
    /\ op.channel_name = "B"
    /\ outcome = "ok"
    /\ SetupBlock(ScriptBlockSize, ScriptDuration, DefaultFraction)

\* line 13: my_picoscope.setup_trigger('B', trigger_threshold_mv=1500)
ScriptSetupTrigger ==
    /\ op.name = "setup_block"
    /\ outcome = "ok"
    /\ SetupTrigger
    /\ op'.source_channel_name = "B"
    /\ op'.trigger_threshold_mv = 1500

\* the program is inside "with my_picoscope:" (lines 18-30; __enter__ does nothing)
InWithBlock ==
    \/ op.name = "setup_trigger" /\ outcome = "ok"
    \/ op.name \in {"run_block", "get_block_traces"}

\* line 22: my_picoscope.run_block(), first in every round of while True
ScriptRunBlock ==
    /\ op.name \in {"setup_trigger", "get_block_traces"}
    /\ outcome = "ok"
    /\ RunBlock

\* line 23: buffers = my_picoscope.get_block_traces()
ScriptGetBlockTraces ==
    /\ op.name = "run_block"
    /\ outcome = "ok"
    /\ GetBlockTracesBegin

\* Ctrl-C inside the loop: KeyboardInterrupt is raised in the running statement
\* and caught at line 29
ScriptInterrupt ==
    /\ op.name \in {"run_block", "get_block_traces"}
    /\ pc \in {"idle", "wait_ready", "get_values"}
    /\ outcome \in {"ok", "running"}
    /\ outcome' = "KeyboardInterrupt"
    /\ pc' = "idle"
    /\ calls' = <<>>
    /\ UNCHANGED <<wrapper, isOpen, max_ADC, active_channels, channel_ranges, hw_trigger,
                   blockVars, streamVars, op>>
    /\ UNCHANGED plotVars

\* the with statement is left, by the caught KeyboardInterrupt or by an exception
\* of run_block or get_block_traces: __exit__ closes the unit
ScriptExit ==
    /\ InWithBlock
    /\ outcome \notin {"ok", "running"}
    /\ Close

\* the interpreter has ended: the with statement was left, or an exception was
\* raised outside it (lines 6-13)
ScriptEnded ==
    \/ pc = "closed"
    \/ pc = "init_failed"
    \/ /\ pc = "idle"
       /\ op.name \in {"setup_channel", "setup_block", "setup_trigger"}
       /\ outcome # "ok"

-----------------------------------------------------------------------------
(* The threaded plotters scroll_blocks_threaded.py and
   scroll_blocks_threaded_fake.py: PicoWorker.pico_run runs in a QThread and
   emits triggered; the slot connected to it is a lambda that evaluates
   data[:ptr].  The signal is emitted by an object that lives in the worker
   thread and the slot is not the method of any QObject, so which thread runs
   the slot is decided by the Qt binding: either the signal is queued and the
   slot runs in the GUI thread, once per queued signal, or the slot runs inside
   emit() in the worker thread.  Both are modelled.  A thread switch can fall
   between any two statements of pico_run and between the two global loads of
   a slot that runs in the GUI thread. *)

\* the value the worker stores on its k-th round (traces_mean[0]; np.random.normal)
Acquired(k) == k

\* data[ptr] = value, 0-based ptr
StoreAt(array, index, value) == [array EXCEPT ![index + 1] = value]

\* data[:n] = tmp
CopyPrefix(array, source) ==
    [i \in 1..Len(array) |-> IF i <= Len(source) THEN source[i] ELSE array[i]]

\* array[:n]: numpy clips the slice to the array
SliceTo(array, n) == SubSeq(array, 1, IF n < Len(array) THEN n ELSE Len(array))

\* lines 33 / 25: data[ptr] = <the value acquired>
WorkerStore ==
    /\ wpc = "acquire"
    /\ ptr < Len(arrays[data])
    /\ arrays' = [arrays EXCEPT ![data] = StoreAt(@, ptr, Acquired(ptr + 1))]
    /\ wpc' = "incr"
    /\ UNCHANGED <<data, ptr, tmp, queued, gpc, gdata, gread>>
    /\ UNCHANGED wrapperVars

\* lines 34-35 / 26-27: ptr += 1; if ptr >= data.shape[0]
WorkerIncrement ==
    /\ wpc = "incr"
    /\ ptr' = ptr + 1
    /\ wpc' = IF ptr' >= Len(arrays[data]) THEN "alloc" ELSE "emit"
    /\ UNCHANGED <<arrays, data, tmp, queued, gpc, gdata, gread>>
    /\ UNCHANGED wrapperVars

\* lines 36-37 / 28-29: tmp = data; data = np.empty(data.shape[0] * 2)
WorkerAllocate ==
    /\ wpc = "alloc"
    /\ Len(arrays) < MaxArrays
    /\ \E fill \in EmptyContents :
        arrays' = Append(arrays, NpEmpty(2 * Len(arrays[data]), fill))
    /\ tmp' = data
    /\ data' = Len(arrays) + 1
    /\ wpc' = "copy"
    /\ UNCHANGED <<ptr, queued, gpc, gdata, gread>>
    /\ UNCHANGED wrapperVars

\* lines 38 / 30: data[:tmp.shape[0]] = tmp
WorkerCopy ==
    /\ wpc = "copy"
    /\ arrays' = [arrays EXCEPT ![data] = CopyPrefix(@, arrays[tmp])]
    /\ wpc' = "emit"
    /\ UNCHANGED <<data, ptr, tmp, queued, gpc, gdata, gread>>
    /\ UNCHANGED wrapperVars

\* lines 39 / 31: self.triggered.emit(): the signal is queued for the GUI thread
WorkerEmit ==
    /\ wpc = "emit"
    /\ queued < MaxQueued
    /\ queued' = queued + 1
    /\ wpc' = "acquire"
    /\ UNCHANGED <<arrays, data, ptr, tmp, gpc, gdata, gread>>
    /\ UNCHANGED wrapperVars

\* lines 39 / 31: self.triggered.emit() when the binding runs the slot inside
\* emit(): data[:ptr] is evaluated in the worker thread before pico_run goes on
WorkerEmitDirect ==
    /\ wpc = "emit"
    /\ gread' = [ptr |-> ptr, capacity |-> Len(arrays[data]),
                 values |-> SliceTo(arrays[data], ptr)]
    /\ wpc' = "acquire"
    /\ UNCHANGED <<arrays, data, ptr, tmp, queued, gpc, gdata>>
    /\ UNCHANGED wrapperVars

\* the slot starts on a queued signal and loads the global data
GuiLoadData ==
    /\ gpc = "idle"
    /\ queued > 0
    /\ queued' = queued - 1
    /\ gdata' = data
    /\ gpc' = "loaded"
    /\ UNCHANGED <<arrays, data, ptr, tmp, wpc, gread>>
    /\ UNCHANGED wrapperVars

\* the slot loads the global ptr, slices and hands the slice to setData
GuiSlice ==
    /\ gpc = "loaded"
    /\ gread' = [ptr |-> ptr, capacity |-> Len(arrays[data]),
                 values |-> SliceTo(arrays[gdata], ptr)]
    /\ gpc' = "idle"
    /\ UNCHANGED <<arrays, data, ptr, tmp, wpc, queued, gdata>>
    /\ UNCHANGED wrapperVars

-----------------------------------------------------------------------------
(* Specifications *)

Init ==
    /\ wrapper = "none"
    /\ pc = "new"
    /\ isOpen = FALSE
    /\ max_ADC = 0
    /\ active_channels = <<>>
    /\ channel_ranges = [c \in Channels |-> NoRange]
    /\ hw_trigger = NoTrigger
    /\ timebase = UnsetTimebase
    /\ block_size = Unset
    /\ pre_trigger_samples = Unset
    /\ post_trigger_samples = Unset
    /\ buffers = [c \in Channels |-> NoBuffer]
    /\ hw_capture = "none"
    /\ hw_buffers = {}
    /\ intermediate_buffers = [c \in Channels |-> <<>>]
    /\ complete_buffers = [c \in Channels |-> NoBuffer]
    /\ nextSample = 0
    /\ autoStopOuter = FALSE
    /\ wasCalledBack = FALSE
    /\ hw_streaming = FALSE
    /\ hw_registered = {}
    /\ delivered = [c \in Channels |-> <<>>]
    /\ lastSegment = NoSegment
    /\ op = NoOp
    /\ calls = <<>>
    /\ outcome = "none"
    /\ arrays = <<NpEmpty(InitCapacity, 0)>>
    /\ data = 1
    /\ ptr = 0
    /\ tmp = 0
    /\ wpc = "acquire"
    /\ queued = 0
    /\ gpc = "idle"
    /\ gdata = 0
    /\ gread = NoRead

\* session open/close, channel and trigger configuration
Next ==
    \/ ConstructBlock
    \/ ConstructStream
    \/ SetupChannel(Channels, RangeInputs)
    \/ SetupTrigger
    \/ Close

Spec == Init /\ [][Next]_vars

\* block planning: session, one channel with the default range, setup_block, run_block
NextPlan ==
    \/ ConstructBlock
    \/ SetupChannel(OneChannel, DefaultRange)
    \/ SetupBlock(PlanSizes, Durations, Fractions)
    \/ RunBlock
    \/ Close

SpecPlan == Init /\ [][NextPlan]_vars

\* block acquisition: session, channels with the default range, small blocks with
\* the default duration and pre-trigger fraction, run_block, get_block_traces
NextAcq ==
    \/ ConstructBlock
    \/ SetupChannel(Channels, DefaultRange)
    \/ SetupBlock(1..MaxBlockSize, DefaultDuration, DefaultFraction)
    \/ RunBlock
    \/ GetBlockTracesBegin
    \/ IsReadyPoll
    \/ GetValues
    \/ Close

SpecAcq == Init /\ [][NextAcq]_vars

\* the acquisition script, statement by statement
NextScript ==
    \/ ScriptConstruct
    \/ ScriptChannelA
    \/ ScriptChannelB
    \/ ScriptSetupBlock
    \/ ScriptSetupTrigger
    \/ ScriptRunBlock
    \/ ScriptGetBlockTraces
    \/ IsReadyPoll
    \/ GetValues
    \/ ScriptInterrupt
    \/ ScriptExit

SpecScript == Init /\ [][NextScript]_vars

\* channel configuration of both wrappers with arbitrary range arguments
NextRanges ==
    \/ ConstructBlock
    \/ ConstructStream
    \/ SetupChannel(Channels, RangeInputs)
    \/ StreamSetupChannel(Channels, RangeIndexInputs)
    \/ Close

SpecRanges == Init /\ [][NextRanges]_vars

\* the threaded plotter: the worker thread and the GUI thread, interleaved
NextPlot ==
    \/ WorkerStore
    \/ WorkerIncrement
    \/ WorkerAllocate
    \/ WorkerCopy
    \/ WorkerEmit
    \/ WorkerEmitDirect
    \/ GuiLoadData
    \/ GuiSlice

SpecPlot == Init /\ [][NextPlot]_vars

\* streaming: session, channels with the default range index, setup_stream, stream_traces
NextStream ==
    \/ ConstructStream
    \/ StreamSetupChannel(Channels, DefaultRangeIndex)
    \/ SetupStream
    \/ StreamTracesBegin
    \/ PollNoCallback
    \/ PollCallback(0..BufferLen)
    \/ StreamTracesFinish
    \/ Close

SpecStream == Init /\ [][NextStream]_vars

\* the same, with a driver that keeps delivering non-empty segments while the loop
\* polls, and a program that goes on running when the loop is left
SpecStreamFair ==
    /\ SpecStream
    /\ WF_vars(PollCallback(1..BufferLen))
    /\ WF_vars(StreamTracesFinish)

-----------------------------------------------------------------------------
(* Claims about channel and trigger configuration and session open *)

SupportedRanges == {allowed_ranges[i] : i \in 1..Len(allowed_ranges)}

\* the supported range that a request of r mV must resolve to
ResolvedRange(r) ==
    LET fits == {x \in SupportedRanges : x >= Abs(r)}
    IN  IF fits = {}
        THEN CHOOSE x \in SupportedRanges : \A y \in SupportedRanges : y <= x
        ELSE CHOOSE x \in fits : \A y \in fits : x <= y

\* C1: after setup_channel(channel, r) the range index sent to the driver, and
\* stored for the channel when the driver accepts it, denotes the smallest
\* supported range >= |r|, or 50000 mV when |r| exceeds every supported range.
C1_RangeCoercion ==
    op.name = "setup_channel" =>
        /\ Len(calls) = 1
        /\ calls[1].fn = "ps4000aSetChannel"
        /\ calls[1].arg[2] \in 0..(Len(allowed_ranges) - 1)
        /\ allowed_ranges[calls[1].arg[2] + 1] = ResolvedRange(op.channel_range_mv)
        /\ (Abs(op.channel_range_mv) > 50000
              => allowed_ranges[calls[1].arg[2] + 1] = 50000)
        /\ (outcome = "ok" => channel_ranges[op.channel_name] = calls[1].arg[2])

\* a negative request of -1500 mV was resolved to index 7 (2000 mV) and stored
C1_Witness ==
    /\ op.name = "setup_channel"
    /\ op.channel_range_mv = -1500
    /\ outcome = "ok"
    /\ channel_ranges[op.channel_name] = 7

\* setup_trigger was called on a channel whose range is configured
TriggerOnConfigured ==
    /\ op.name = "setup_trigger"
    /\ channel_ranges[op.source_channel_name] # NoRange

\* the resolved range R, in mV, of the source channel of the last setup_trigger
SourceRangeMv == allowed_ranges[channel_ranges[op.source_channel_name] + 1]

\* adc is round(t / R * maxAdc), ties to even
IsRounded(adc, t, R, maxAdc) ==
    LET d == Abs(adc * R - t * maxAdc)
    IN  \/ 2 * d < R
        \/ 2 * d = R /\ adc % 2 = 0

\* setup_trigger issued exactly the set-simple-trigger call, with round(t/R*maxAdc)
ArmedWithRounded ==
    /\ Len(calls) = 1
    /\ calls[1].fn = "ps4000aSetSimpleTrigger"
    /\ calls[1].arg[1] = op.source_channel_name
    /\ IsRounded(calls[1].arg[2], op.trigger_threshold_mv, SourceRangeMv, max_ADC)
    /\ (outcome = "ok" <=> assert_pico_ok(calls[1].status))
    /\ (outcome = "ok" => hw_trigger = [source |-> op.source_channel_name,
                                         threshold |-> calls[1].arg[2]])

C3_ThresholdAboveRange ==
    (TriggerOnConfigured /\ op.trigger_threshold_mv >= SourceRangeMv) =>
        /\ outcome = "ConfigurationError"
        /\ calls = <<>>

\* a threshold equal to the range (2000 mV on a 2000 mV channel) was rejected
C3_Witness ==
    /\ TriggerOnConfigured
    /\ op.trigger_threshold_mv = 2000
    /\ SourceRangeMv = 2000
    /\ outcome = "ConfigurationError"

\* setup_channel has succeeded for channel c (it was appended to active_channels)
SetupSucceeded(c) == \E i \in 1..Len(active_channels) : active_channels[i] = c

\* C4: setup_trigger on a channel for which setup_channel has not succeeded ends
\* in the configuration-error outcome and issues no driver call.
C4_TriggerOnUnconfigured ==
    (op.name = "setup_trigger" /\ ~SetupSucceeded(op.source_channel_name)) =>
        /\ outcome = "ConfigurationError"
        /\ calls = <<>>

\* a trigger below the default range was requested on a channel never set up,
\* while another channel was set up
C4_Witness ==
    /\ op.name = "setup_trigger"
    /\ ~SetupSucceeded(op.source_channel_name)
    /\ op.trigger_threshold_mv = 100
    /\ active_channels # <<>>
    /\ outcome = "ConfigurationError"

CallsOf(fn) == {i \in 1..Len(calls) : calls[i].fn = fn}

\* the power-source logic of __init__: one open call, first; a power-source
\* switch exactly when the open status is 286; fatal failure when the open fails
\* otherwise or the switch fails
OpenProtocol ==
    /\ Cardinality(CallsOf("ps4000aOpenUnit")) = 1
    /\ calls[1].fn = "ps4000aOpenUnit"
    /\ IF assert_pico_ok(calls[1].status)
       THEN CallsOf("ps4000aChangePowerSource") = {}
       ELSE IF calls[1].status = 286
       THEN /\ CallsOf("ps4000aChangePowerSource") = {2}
            /\ (pc = "idle" => assert_pico_ok(calls[2].status))
            /\ (~assert_pico_ok(calls[2].status)
                  => outcome = "HardwareError" /\ pc = "init_failed" /\ Len(calls) = 2)
       ELSE /\ Len(calls) = 1
            /\ outcome = "HardwareError"
            /\ pc = "init_failed"

\* C10 as stated: in particular, whenever the open call succeeds the session is
\* created.
C10_AsStated ==
    op.name = "__init__" =>
        /\ OpenProtocol
        /\ (assert_pico_ok(calls[1].status) => outcome = "ok" /\ pc = "idle")

\* C10 amended: the open call is issued once; if it succeeds no power-source call
\* is made, and the session is created provided, in the block-mode wrapper, that
\* the maximum-value query ending construction succeeds; on status 286 the power
\* source is switched exactly once and the session is created only if the switch
\* succeeds; on any other status the open fails fatally with no power-source call.
C10_OpenProtocol ==
    op.name = "__init__" =>
        /\ OpenProtocol
        /\ (assert_pico_ok(calls[1].status) =>
               IF CallsOf("ps4000aMaximumValue") # {}
                    /\ ~assert_pico_ok(calls[Len(calls)].status)
               THEN outcome = "HardwareError" /\ pc = "init_failed"
               ELSE outcome = "ok" /\ pc = "idle")
        /\ (op.wrapper = "stream" => CallsOf("ps4000aMaximumValue") = {})
        /\ (pc = "idle" <=> outcome = "ok")

\* the open returned 286, the power source was switched, and the session exists
C10_Witness ==
    /\ op.name = "__init__"
    /\ Len(calls) >= 2
    /\ calls[1].status = 286
    /\ calls[2].fn = "ps4000aChangePowerSource"
    /\ assert_pico_ok(calls[2].status)
    /\ pc = "idle"

-----------------------------------------------------------------------------
(* Claims about block planning *)

\* setup_block stored a plan: it ran past convert_timebase
PlanStored == op.name = "setup_block" /\ outcome \in {"ok", "HardwareError"}

\* pre is floor(n * f) for f = num / den
IsFloorOfProduct(pre, n, f) == pre * f.den <= n * f.num /\ n * f.num < (pre + 1) * f.den

\* C5 as stated: after setup_block(block_size = n, pre_trigger_percent = f), for
\* every sample count n and fraction f, pre_trigger_samples + post_trigger_samples
\* = n and pre_trigger_samples = floor(n * f), and run_block passes these counts.
C5_AsStated ==
    /\ (op.name = "setup_block" =>
           /\ pre_trigger_samples + post_trigger_samples = op.block_size
           /\ IsFloorOfProduct(pre_trigger_samples, op.block_size, op.pre_trigger_percent))
    /\ (op.name = "run_block" =>
           \A i \in CallsOf("ps4000aRunBlock") :
               /\ calls[i].arg[1] = pre_trigger_samples
               /\ calls[i].arg[2] = post_trigger_samples
               /\ calls[i].arg[1] + calls[i].arg[2] = block_size)

\* what holds of the code: the split is as claimed whenever setup_block gets past
\* convert_timebase, that is for every block_size >= 2
C5_SplitWhenStored ==
    /\ (PlanStored =>
           /\ block_size = op.block_size
           /\ pre_trigger_samples + post_trigger_samples = op.block_size
           /\ IsFloorOfProduct(pre_trigger_samples, op.block_size, op.pre_trigger_percent))
    /\ (op.name = "setup_block" => (PlanStored <=> op.block_size >= 2))
    /\ (block_size # Unset => pre_trigger_samples + post_trigger_samples = block_size)
    /\ (op.name = "run_block" =>
           \A i \in CallsOf("ps4000aRunBlock") :
               /\ calls[i].arg[1] = pre_trigger_samples
               /\ calls[i].arg[2] = post_trigger_samples)

\* 2^32 - 1, the largest timebase code of the device
MaxLegalTimebase == <<4, 2, 9, 4, 9, 6, 7, 2, 9, 5>>

LegalTimebase(tb) == ~tb.neg /\ BigLeq(tb.digits, MaxLegalTimebase)

\* C6 as stated: for block_size >= 2 setup_block keeps floor(400e6 / rate) - 1 when
\* it lies in 0 .. 2^32 - 1 and otherwise stores the fallback 3999, so the timebase
\* stored and passed to get-timebase and run-block is always in the legal range.
C6_AsStated ==
    /\ (PlanStored =>
           /\ timebase = IF LegalTimebase(RawTimebase(op.block_size, op.block_duration))
                         THEN RawTimebase(op.block_size, op.block_duration)
                         ELSE FallbackTimebase
           /\ calls[1].fn = "ps4000aGetTimebase2"
           /\ calls[1].arg[1] = timebase)
    /\ (block_size # Unset => LegalTimebase(timebase))
    /\ (op.name = "run_block" =>
           \A i \in CallsOf("ps4000aRunBlock") :
               calls[i].arg[3] = timebase /\ LegalTimebase(calls[i].arg[3]))

\* what holds of the code: codes below 0 are replaced by 3999, codes above 2^32 - 1
\* are kept, the limit compared with being 2e32 - 1
C6_WindowOfTheCode ==
    /\ (PlanStored =>
           /\ timebase = IF RawTimebase(op.block_size, op.block_duration).neg
                         THEN FallbackTimebase
                         ELSE RawTimebase(op.block_size, op.block_duration)
           /\ calls[1].arg[1] = timebase)
    /\ (block_size # Unset => ~timebase.neg)

-----------------------------------------------------------------------------
(* Claims about stream_traces *)

\* the destination of channel c holds exactly the samples delivered so far, in
\* order from offset 0, followed by the zeros it was created with
ContiguousPrefix(c) ==
    /\ nextSample = Len(delivered[c])
    /\ complete_buffers[c].samples = delivered[c] \o NpZeros(total_buffer_len - nextSample)

StreamCursorInv ==
    pc = "polling" =>
        /\ nextSample \in 0..total_buffer_len
        /\ \A c \in StreamChannels \cap hw_registered : ContiguousPrefix(c)
        /\ \A c \in StreamChannels \ hw_registered :
               complete_buffers[c].samples = NpZeros(total_buffer_len)

\* a step of the loop: the cursor does not decrease, and a callback copies, for
\* every configured channel, intermediate[startIndex : startIndex + n] to
\* destination[cursor : cursor + n], changes nothing else of the destination, and
\* advances the cursor by n
StreamCallbackStep ==
    /\ (pc # "polling" /\ pc' = "polling" => nextSample' = 0)
    /\ (pc = "polling" /\ pc' = "polling" =>
           /\ nextSample' >= nextSample
           /\ (~wasCalledBack' => nextSample' = nextSample
                                    /\ complete_buffers' = complete_buffers)
           /\ (wasCalledBack' =>
                 /\ lastSegment'.cursor = nextSample
                 /\ nextSample' = nextSample + lastSegment'.noOfSamples
                 /\ \A c \in StreamChannels : \A x \in 1..total_buffer_len :
                       complete_buffers'[c].samples[x] =
                           IF nextSample < x /\ x <= nextSample'
                           THEN intermediate_buffers'[c][lastSegment'.startIndex
                                                          + (x - nextSample)]
                           ELSE complete_buffers[c].samples[x]))

\* C7: within one stream_traces run the cursor starts at 0, never decreases and
\* equals the number of samples delivered so far; each segment is copied, for every
\* configured channel, from intermediate[startIndex : startIndex + n] to the
\* destination at the cursor, so the destination prefix is the in-order
\* concatenation of the segments without gap or overlap.
C7_StreamContiguous == []StreamCursorInv /\ [][StreamCallbackStep]_vars

\* two callbacks of 2 and 1 samples landed at offsets 0 and 2 on both channels: the
\* destinations hold 3 contiguous samples
C7_Witness ==
    /\ pc = "polling"
    /\ hw_registered = Channels
    /\ nextSample = 3
    /\ lastSegment = [noOfSamples |-> 1, startIndex |-> 1, cursor |-> 2]
    /\ complete_buffers["A"].samples = <<1, 2, 3>> \o NpZeros(total_buffer_len - 3)
    /\ complete_buffers["B"].samples = <<-1, -2, -3>> \o NpZeros(total_buffer_len - 3)

\* the loop goes on only while the cursor is below total_buffer_len and no callback
\* reported auto-stop, and is left only when the buffer is full or auto-stop was
\* reported
LoopGuardStep ==
    /\ (pc = "polling" /\ pc' = "polling" =>
           nextSample < total_buffer_len /\ ~autoStopOuter)
    /\ (pc = "polling" /\ pc' # "polling" =>
           nextSample >= total_buffer_len \/ autoStopOuter)

\* stream_traces has returned the converted traces
StreamReturned ==
    /\ pc = "idle"
    /\ op.name = "stream_traces"
    /\ outcome = "ok"
    /\ \A c \in StreamChannels : complete_buffers[c].conversions = 1

\* stream_traces was aborted by the failed maximum-value query of convert_ADC_units
StreamRaised ==
    /\ pc = "idle"
    /\ op.name = "stream_traces"
    /\ outcome = "HardwareError"
    /\ calls[1].fn = "ps4000aMaximumValue"
    /\ ~assert_pico_ok(calls[1].status)

-----------------------------------------------------------------------------
(* Claims about failure semantics *)

\* the one failure that is not fatal: ps4000aOpenUnit returning the power-source status
IsPowerSourceRetry(call) ==
    call.fn = "ps4000aOpenUnit" /\ call.status = PICO_POWER_SUPPLY_NOT_CONNECTED

\* C9 as stated: every driver call that returns a non-success status, other than
\* the open call answered by the power-source switch, is the last driver call of
\* its operation and aborts it with a failure; it is never ignored or retried.
C9_AsStated ==
    \A i \in 1..Len(calls) :
        (~assert_pico_ok(calls[i].status) /\ ~IsPowerSourceRetry(calls[i])) =>
            /\ i = Len(calls)
            /\ outcome = "HardwareError"

\* what holds of the code: the calls whose status reaches assert_pico_ok abort
\* their operation
AssertedCalls == {"ps4000aOpenUnit", "ps4000aChangePowerSource", "ps4000aMaximumValue",
                  "ps4000aSetChannel", "ps4000aSetSimpleTrigger", "ps4000aGetTimebase2",
                  "ps4000aRunBlock", "ps4000aGetValues", "ps4000aRunStreaming",
                  "ps4000aCloseUnit"}

C9_AssertedCallsAbort ==
    \A i \in 1..Len(calls) :
        (~assert_pico_ok(calls[i].status) /\ ~IsPowerSourceRetry(calls[i])
           /\ calls[i].fn \in AssertedCalls) =>
            /\ i = Len(calls)
            /\ outcome = "HardwareError"

-----------------------------------------------------------------------------
(* Claims about releasing the device handle *)

\* the last method call ended in a fatal error: a failed driver call or a
\* configuration error
FatalError == outcome \in {"HardwareError", "ConfigurationError"}

\* the close-unit driver call has been issued
CloseIssued == op.name = "__exit__" /\ CallsOf("ps4000aCloseUnit") # {}

\* C11 as stated: whenever a fatal error occurs in any operation of the acquisition
\* script after the device was opened, channel, block and trigger configuration
\* included, the close-unit driver call is issued before the program ends.
C11_AsStated == (ScriptEnded /\ isOpen) => CloseIssued

\* what holds of the code: the unit is closed when the failure happens inside the
\* with statement; a failure of lines 6-13 ends the program with the handle open
C11_ClosedInsideWith ==
    /\ ~(ScriptEnded /\ InWithBlock)
    /\ (pc = "closed" => CloseIssued)
    /\ (ScriptEnded /\ FatalError /\ op.name # "__exit__" /\ pc # "init_failed" => isOpen)

-----------------------------------------------------------------------------
(* Claims about the recorded range index *)

\* v is an index of a real entry of the table the wrapper converts with:
\* allowed_ranges in block mode, channelInputRanges of adc2mV in streaming mode
ValidBlockIndex(v) == v \in 0..(Len(allowed_ranges) - 1)
ValidStreamIndex(v) == v.wraps = 0 /\ v.c_int32 \in 0..(Len(channelInputRanges) - 1)

\* C12 as stated: in every reachable state of either wrapper, after any sequence of
\* setup_channel calls with any arguments, the range index recorded for every
\* configured channel is a valid index into the table of supported ranges.
C12_AsStated ==
    /\ wrapper = "block" =>
           \A c \in Channels : channel_ranges[c] # NoRange => ValidBlockIndex(channel_ranges[c])
    /\ wrapper = "stream" =>
           \A c \in StreamChannels : ValidStreamIndex(channel_ranges[c])

\* what holds of the code: the block wrapper records a valid index; the streaming
\* wrapper records its argument as given, of which only the C int32 was accepted
\* by the driver
C12_DriverSawValidRange ==
    /\ wrapper = "block" =>
           \A c \in Channels : channel_ranges[c] # NoRange => ValidBlockIndex(channel_ranges[c])
    /\ wrapper = "stream" =>
           \A c \in StreamChannels : DriverAcceptsRange(as_c_int32(channel_ranges[c]))

-----------------------------------------------------------------------------
(* Claims about get_block_traces *)

\* the driver calls of the step just taken are exactly one call of fn
OneCallOf(cs, fn) == Len(cs) = 1 /\ cs[1].fn = fn

\* every entry of self.buffers was converted once more, none was added or resized
ConvertedOnce(old, new) ==
    \A c \in Channels :
        IF old[c] = NoBuffer THEN new[c] = NoBuffer
        ELSE /\ new[c].size = old[c].size
             /\ new[c].conversions = old[c].conversions + 1

\* steps of the ready loop: a poll that reports not ready is followed by another
\* poll, without get-values and without conversion; get-values is issued only
\* after a poll reported ready
ReadyLoopStep ==
    /\ pc = "wait_ready" =>
           /\ OneCallOf(calls', "ps4000aIsReady")
           /\ buffers' = buffers
           /\ outcome' = "running"
           /\ pc' = IF calls'[1].arg[1] = 0 THEN "wait_ready" ELSE "get_values"
    /\ pc' = "get_values" => pc = "wait_ready"
    /\ (\E i \in 1..Len(calls') : calls'[i].fn = "ps4000aGetValues") => pc = "get_values"
    /\ pc # "get_values" =>
           \A c \in Channels :
               buffers'[c].conversions \in {buffers[c].conversions, 0}

\* C13 as stated: get_block_traces polls while the device reports not ready,
\* issuing neither get-values nor a conversion; once the device reports ready it
\* issues get-values exactly once, converts and returns the per-channel trace map.
C13_AsStated ==
    [][/\ ReadyLoopStep
       /\ pc = "get_values" =>
              /\ OneCallOf(calls', "ps4000aGetValues")
              /\ pc' = "idle"
              /\ outcome' = "ok"
              /\ ConvertedOnce(buffers, buffers')]_vars

\* C13 amended: ... once the device reports ready it issues get-values exactly
\* once, and then converts and returns the per-channel trace map if get-values
\* succeeded, and fails with the hardware error, converting nothing, otherwise.
C13_PollThenGetValues ==
    [][/\ ReadyLoopStep
       /\ pc = "get_values" =>
              /\ OneCallOf(calls', "ps4000aGetValues")
              /\ pc' = "idle"
              /\ IF assert_pico_ok(calls'[1].status)
                 THEN outcome' = "ok" /\ ConvertedOnce(buffers, buffers')
                 ELSE outcome' = "HardwareError" /\ buffers' = buffers]_vars

\* get_block_traces returned the converted traces of both channels after a capture
C13_Witness ==
    /\ pc = "idle"
    /\ op.name = "get_block_traces"
    /\ outcome = "ok"
    /\ OneCallOf(calls, "ps4000aGetValues")
    /\ hw_capture = "running"
    /\ \A c \in Channels : buffers[c] # NoBuffer /\ buffers[c].conversions = 1

-----------------------------------------------------------------------------
(* Claims about the buffers of a block *)

\* the channels of self.active_channels
ConfiguredChannels == {active_channels[i] : i \in 1..Len(active_channels)}

\* the step just taken is a run_block that issued the capture request
CaptureRequested ==
    /\ op'.name = "run_block"
    /\ \E i \in 1..Len(calls') : calls'[i].fn = "ps4000aRunBlock"

\* the step just taken is a get_block_traces returning its map
TracesReturned == pc = "get_values" /\ outcome' = "ok"

\* C14 as stated: every run_block, before it issues the capture request, allocates
\* a new buffer of block_size samples for each configured channel and registers it
\* with the driver; the map get_block_traces then returns has one trace per
\* configured channel, of the size allocated, holding the samples of this block.
C14_AsStated ==
    [][/\ CaptureRequested =>
              \A c \in ConfiguredChannels :
                  /\ buffers'[c] = FreshBuffer(block_size)
                  /\ c \in hw_buffers'
       /\ TracesReturned =>
              \A c \in Channels :
                  buffers[c] # NoBuffer /\ buffers[c].conversions = 0 =>
                      /\ c \in ConfiguredChannels
                      /\ buffers'[c].size = buffers[c].size
                      /\ buffers'[c].samples = CapturedSamples(c, buffers[c].size)]_vars

\* what holds of the code: the new buffers are always allocated, but the capture
\* is requested whether or not they were registered; a returned trace holds the
\* block only for a channel whose buffer the driver holds
C14_FreshButUnchecked ==
    [][/\ CaptureRequested =>
              \A c \in ConfiguredChannels : buffers'[c] = FreshBuffer(block_size)
       /\ TracesReturned =>
              \A c \in Channels :
                  buffers[c] # NoBuffer /\ buffers[c].conversions = 0 =>
                      /\ c \in ConfiguredChannels
                      /\ buffers'[c].size = buffers[c].size
                      /\ buffers'[c].samples =
                             IF c \in hw_buffers THEN CapturedSamples(c, buffers[c].size)
                             ELSE <<>>]_vars

-----------------------------------------------------------------------------
(* Claims about unit conversion *)

\* get_block_traces has returned for the k-th time in a row since the last run_block
ReturnedTimes(k) ==
    /\ pc = "idle"
    /\ op.name = "get_block_traces"
    /\ outcome = "ok"
    /\ \A c \in Channels : buffers[c] # NoBuffer => buffers[c].conversions = k

\* C15 as stated: get_block_traces called twice in a row after a single run_block
\* returns, the second time, the same per-channel millivolt traces as the first
\* time: every raw sample is converted once (raw * rangeMv / maxAdc).
C15_AsStated ==
    ReturnedTimes(2) =>
        \A c \in Channels :
            buffers[c] # NoBuffer =>
                BufferValues(buffers[c], channel_ranges[c], max_ADC)
                    = BufferValues([buffers[c] EXCEPT !.conversions = 1],
                                   channel_ranges[c], max_ADC)

\* what holds of the code: the first call returns raw * rangeMv / maxAdc for every
\* sample
C15_FirstCallConverts ==
    ReturnedTimes(1) =>
        \A c \in Channels :
            buffers[c] # NoBuffer =>
                \A i \in 1..buffers[c].size :
                    BufferValues(buffers[c], channel_ranges[c], max_ADC)[i]
                        = Fraction((IF buffers[c].samples = <<>> THEN 0
                                    ELSE buffers[c].samples[i])
                                       * allowed_ranges[channel_ranges[c] + 1],
                                   max_ADC)

-----------------------------------------------------------------------------
(* Claims about the threaded plotters *)

\* the number of values the worker has stored by now
StoredCount == IF wpc = "incr" THEN ptr + 1 ELSE ptr

\* v is a value the worker has stored by now
StoredByWorker(v) == \E k \in 1..StoredCount : v = Acquired(k)

\* C16 as stated: under every interleaving of the worker and the GUI thread, ptr
\* never exceeds the capacity of the array bound to data at the moment of a read,
\* and every element of a slice the GUI read is a value the worker stored before.
C16_AsStated ==
    /\ ptr <= Len(arrays[data])
    /\ gread.ptr <= gread.capacity
    /\ \A i \in 1..Len(gread.values) : StoredByWorker(gread.values[i])

\* what holds of the code: ptr stays within the capacity of the array bound to
\* data, and that array holds the values stored, in order, except between the
\* allocation of a larger array and the copy of the old contents into it
C16_PtrWithinCapacity ==
    /\ ptr <= Len(arrays[data])
    /\ gread.ptr <= gread.capacity
    /\ wpc # "copy" => \A i \in 1..ptr : arrays[data][i] = Acquired(i)

====
